---- MODULE Spec2Model ----
(***************************************************************************)
(* MEDBO AI navigation simulation (src/nav_pygame.py): the A* planner, the *)
(* dynamic obstacle mover, the LIDAR-like sweep and the motion task of     *)
(* NavSim, as a state machine.                                             *)
(*                                                                         *)
(* Cells are pairs <<r, c>> with 0-based coordinates, as in the source.    *)
(* A grid is a function [0..rows-1 -> [0..cols-1 -> {0,1}]] (0 free,       *)
(* 1 blocked), read as grid[r][c] like the source's list of lists.         *)
(***************************************************************************)
EXTENDS Integers, Sequences, FiniteSets, TLC

VARIABLES
    \* astar's arguments and result (planner harness)
    plan_grid, plan_start, plan_goal, plan_path, plan_pc,
    \* NavSim's fields
    grid, dynamic, robot_cell, robot_pos, path, path_index,
    moving, paused, returning, detected_cells, log_lines,
    \* the motion threads started by start_navigation: task[t].pc is the
    \* thread's position in animate_robot, task[t].path its path argument
    task,
    \* history: the event (command or obstacle tick) run() dispatched last,
    \* how many it has dispatched, and the threads that had a plan in flight
    \* when it dispatched stop_navigation or reset
    last_cmd, cmds, cancelled,
    \* the dashboard's st.session_state navigation entries (app.py), the
    \* position of the script run (app_pc) and the iterations its burst has
    \* left (app_left)
    ss_nav_on, ss_obstacles, ss_start, ss_goal, ss_robot_pos, ss_path,
    app_pc, app_left

plan_vars == <<plan_grid, plan_start, plan_goal, plan_path, plan_pc>>
sim_vars == <<grid, dynamic, robot_cell, robot_pos, path, path_index,
              moving, paused, returning, detected_cells, log_lines,
              task, last_cmd, cmds, cancelled>>
app_vars == <<ss_nav_on, ss_obstacles, ss_start, ss_goal, ss_robot_pos, ss_path,
              app_pc, app_left>>
vars == <<plan_vars, sim_vars, app_vars>>

(***************************************************************************)
(* Bounds of the planner harness.                                          *)
(***************************************************************************)
PlanRows == 3
PlanCols == 3
PlanMaxWalls == 2

Abs(x) == IF x < 0 THEN -x ELSE x

\* rows, cols = len(grid), len(grid[0])
NumRows(view) == Cardinality(DOMAIN view)
NumCols(view) == Cardinality(DOMAIN view[0])

\* 0<=nr<rows and 0<=nc<cols
InRange(rows, cols, cell) ==
    /\ 0 <= cell[1] /\ cell[1] < rows
    /\ 0 <= cell[2] /\ cell[2] < cols

InBounds(view, cell) == InRange(NumRows(view), NumCols(view), cell)

\* heuristic(a, b): Manhattan distance
heuristic(a, b) == Abs(a[1] - b[1]) + Abs(a[2] - b[2])

\* The value astar returns when the open queue runs empty.  The source
\* returns None; every caller tests the result with `not path`, which None
\* and the empty list both satisfy, so "no path" is the empty sequence here.
None == <<>>

\* for dr, dc in ((1,0),(-1,0),(0,1),(0,-1))
Dirs == << <<1, 0>>, <<-1, 0>>, <<0, 1>>, <<0, -1>> >>

\* Python's tuple order on heap entries (f, cost, (r, c)).
EntryLess(x, y) ==
    \/ x[1] < y[1]
    \/ x[1] = y[1] /\ x[2] < y[2]
    \/ x[1] = y[1] /\ x[2] = y[2] /\ x[3][1] < y[3][1]
    \/ x[1] = y[1] /\ x[2] = y[2] /\ x[3][1] = y[3][1] /\ x[3][2] < y[3][2]

\* a pop that takes the greatest entry instead of the least
HeapMin_greatest(openq) == CHOOSE e \in openq : \A o \in openq : o = e \/ EntryLess(o, e)

\* heapq.heappop: the least entry.  An entry (f, cost, cell) is pushed only
\* when cost is strictly below g[cell], so no entry is pushed twice and the
\* heap is a set.
HeapMin(openq) == CHOOSE e \in openq : \A o \in openq : o = e \/ EntryLess(e, o)

\* g.get((nr,nc), 1e9)
GGet(g, cell) == IF cell \in DOMAIN g THEN g[cell] ELSE 1000000000

\* the neighbour test without the occupancy check
CellFree_unchecked(view, cell) == view[cell[1]][cell[2]] \in {0, 1}

\* grid[nr][nc]==0 : the neighbour is not blocked in the view
CellFree(view, cell) == view[cell[1]][cell[2]] = 0

\* The body of the neighbour loop for direction k, then the directions after it.
RECURSIVE Relax(_, _, _, _, _, _, _)
Relax(view, rows, cols, goal, current, s, k) ==
    IF k > Len(Dirs) THEN s
    ELSE LET nb == <<current[1] + Dirs[k][1], current[2] + Dirs[k][2]>>
             tentative == s.g[current] + 1
             take == /\ InRange(rows, cols, nb)
                     /\ CellFree(view, nb)
                     /\ tentative < GGet(s.g, nb)
             s2 == IF take
                   THEN [s EXCEPT !.came = (nb :> current) @@ s.came,
                                  !.g = (nb :> tentative) @@ s.g,
                                  !.openq = @ \cup {<<tentative + heuristic(nb, goal),
                                                      tentative, nb>>}]
                   ELSE s
         IN  Relax(view, rows, cols, goal, current, s2, k + 1)

\* the walk back along came without the final reversal (goal first)
RECURSIVE Backtrack_unreversed(_, _, _)
Backtrack_unreversed(came, current, acc) ==
    IF current \in DOMAIN came
    THEN Backtrack_unreversed(came, came[current], acc \o <<came[current]>>)
    ELSE acc

\* path = [current]; while current in came: current = came[current]; ...
\* built directly in start-to-goal order (the source reverses at the end).
RECURSIVE Backtrack(_, _, _)
Backtrack(came, current, acc) ==
    IF current \in DOMAIN came
    THEN Backtrack(came, came[current], <<came[current]>> \o acc)
    ELSE acc

\* while openq: ...
RECURSIVE AstarLoop(_, _, _, _, _)
AstarLoop(view, rows, cols, goal, s) ==
    IF s.openq = {} THEN None
    ELSE LET e == HeapMin(s.openq)
             current == e[3]
             popped == [s EXCEPT !.openq = @ \ {e}]
         IN  IF current = goal THEN Backtrack(s.came, current, <<current>>)
             ELSE IF current \in s.visited THEN AstarLoop(view, rows, cols, goal, popped)
             ELSE AstarLoop(view, rows, cols, goal,
                            Relax(view, rows, cols, goal, current,
                                  [popped EXCEPT !.visited = @ \cup {current}], 1))

astar(view, start, goal) ==
    AstarLoop(view, NumRows(view), NumCols(view), goal,
              [openq |-> {<<heuristic(start, goal), 0, start>>},
               came |-> <<>>,
               g |-> (start :> 0),
               visited |-> {}])

(***************************************************************************)
(* Planner harness: astar applied to every view, start and goal within the *)
(* bounds, and to the two 5x5 scenario grids of the specification.         *)
(***************************************************************************)
CellsOf(rows, cols) == (0 .. rows - 1) \X (0 .. cols - 1)

GridOf(rows, cols, walls) ==
    [r \in 0 .. rows - 1 |-> [c \in 0 .. cols - 1 |->
        IF <<r, c>> \in walls THEN 1 ELSE 0]]

WallsOf(view) ==
    {cell \in CellsOf(NumRows(view), NumCols(view)) : view[cell[1]][cell[2]] = 1}

BoundedGrids ==
    {GridOf(PlanRows, PlanCols, w) :
        w \in {x \in SUBSET CellsOf(PlanRows, PlanCols) : Cardinality(x) <= PlanMaxWalls}}

\* 5x5 empty grid, and the same grid with a wall in column 2 except row 4.
ScenarioGrids ==
    {GridOf(5, 5, {}), GridOf(5, 5, {<<r, 2>> : r \in 0 .. 3})}

\* The simulation's fields while only the planner is exercised.
SimIdle ==
    /\ grid = <<>> /\ dynamic = {} /\ robot_cell = <<0, 0>> /\ robot_pos = <<0, 0>>
    /\ path = <<>> /\ path_index = 0
    /\ moving = FALSE /\ paused = FALSE /\ returning = FALSE
    /\ detected_cells = {} /\ log_lines = <<>>
    /\ task = <<>> /\ last_cmd = "none" /\ cmds = 0 /\ cancelled = {}

\* The dashboard's entries while the dashboard script is not exercised.
AppIdle ==
    /\ ss_nav_on = FALSE /\ ss_obstacles = {}
    /\ ss_start = <<0, 0>> /\ ss_goal = <<0, 0>> /\ ss_robot_pos = <<0, 0>>
    /\ ss_path = <<>> /\ app_pc = "off" /\ app_left = 0

PlanInit ==
    /\ SimIdle
    /\ AppIdle
    /\ plan_grid \in BoundedGrids \cup ScenarioGrids
    /\ plan_start \in CellsOf(NumRows(plan_grid), NumCols(plan_grid))
    /\ plan_goal \in CellsOf(NumRows(plan_grid), NumCols(plan_grid))
    /\ plan_path = <<>>
    /\ plan_pc = "call"

PlanCall ==
    /\ plan_pc = "call"
    /\ plan_path' = astar(plan_grid, plan_start, plan_goal)
    /\ plan_pc' = "returned"
    /\ UNCHANGED <<plan_grid, plan_start, plan_goal>>
    /\ UNCHANGED <<sim_vars, app_vars>>

PlanNext == PlanCall

SpecAstar == PlanInit /\ [][PlanNext]_vars

(***************************************************************************)
(* Reference definitions for the planner claims, independent of astar.     *)
(***************************************************************************)
\* A cell a route may use: in bounds and unblocked, the start cell counting
\* as unblocked whatever the view marks it.
Passable(view, rows, cols, start, cell) ==
    InRange(rows, cols, cell) /\ (cell = start \/ view[cell[1]][cell[2]] = 0)

Adjacent(a, b) == Abs(a[1] - b[1]) + Abs(a[2] - b[2]) = 1

StepsFrom(view, rows, cols, start, frontier) ==
    {n \in {<<f[1] + d[1], f[2] + d[2]>> :
                f \in frontier, d \in {<<1, 0>>, <<-1, 0>>, <<0, 1>>, <<0, -1>>}} :
        Passable(view, rows, cols, start, n)}

\* Breadth-first search: the number of cells of a shortest 4-connected route
\* from start to goal, 0 when there is none.
RECURSIVE BfsCells(_, _, _, _, _, _, _, _)
BfsCells(view, rows, cols, start, goal, frontier, seen, n) ==
    IF goal \in frontier THEN n
    ELSE LET next == StepsFrom(view, rows, cols, start, frontier) \ seen
         IN  IF next = {} THEN 0
             ELSE BfsCells(view, rows, cols, start, goal, next, seen \cup next, n + 1)

ShortestCells(view, start, goal) ==
    BfsCells(view, NumRows(view), NumCols(view), start, goal, {start}, {start}, 1)

PlanReturned == plan_pc = "returned"
PlanReachable == ShortestCells(plan_grid, plan_start, plan_goal) > 0

\* C1: whenever some 4-connected route of unblocked cells joins start and
\* goal (the start counting as unblocked), astar returns a path with the
\* breadth-first shortest number of cells; on an obstacle-free grid that is
\* manhattan(start, goal) + 1 cells.
C1_AstarShortest ==
    PlanReturned =>
        LET shortest == ShortestCells(plan_grid, plan_start, plan_goal)
        IN  shortest > 0 =>
               /\ Len(plan_path) = shortest
               /\ WallsOf(plan_grid) = {} =>
                      Len(plan_path) = Abs(plan_start[1] - plan_goal[1])
                                       + Abs(plan_start[2] - plan_goal[2]) + 1

\* a reachable goal behind walls: the shortest route is a detour, longer
\* than the Manhattan distance
C1_Witness ==
    /\ PlanReturned /\ PlanReachable
    /\ WallsOf(plan_grid) # {}
    /\ Len(plan_path) > Abs(plan_start[1] - plan_goal[1])
                        + Abs(plan_start[2] - plan_goal[2]) + 1

\* the 5x5 grid with a wall in column 2 except row 4
GapGrid == GridOf(5, 5, {<<r, 2>> : r \in 0 .. 3})
AcrossGap == plan_grid = GapGrid /\ plan_start[2] < 2 /\ plan_goal[2] > 2

\* C2: a non-empty path returned by astar begins with start, ends with
\* goal, keeps every cell in bounds and 4-adjacent to the previous one, and
\* holds no cell blocked in the view except possibly the start; across the
\* single-gap wall it passes through the gap (4,2).
C2_PathWellFormed ==
    (PlanReturned /\ plan_path # <<>>) =>
        /\ plan_path[1] = plan_start
        /\ plan_path[Len(plan_path)] = plan_goal
        /\ \A i \in 1 .. Len(plan_path) : InBounds(plan_grid, plan_path[i])
        /\ \A i \in 2 .. Len(plan_path) :
               /\ Adjacent(plan_path[i - 1], plan_path[i])
               /\ plan_grid[plan_path[i][1]][plan_path[i][2]] = 0
        /\ AcrossGap => \E i \in 1 .. Len(plan_path) : plan_path[i] = <<4, 2>>

\* a path from the top-left corner across the single-gap wall
C2_Witness ==
    /\ PlanReturned /\ AcrossGap
    /\ plan_start = <<0, 0>> /\ plan_goal = <<0, 4>>
    /\ Len(plan_path) = 13
    /\ \E i \in 1 .. Len(plan_path) : plan_path[i] = <<4, 2>>

\* C3: when no 4-connected route of unblocked cells joins start and goal,
\* astar terminates (its open set exhausted) and returns the empty path.
C3_UnreachableEmpty ==
    (PlanReturned /\ ~PlanReachable) => plan_path = None

\* a free goal walled off from a distinct start: the call returned empty
C3_Witness ==
    /\ PlanReturned /\ ~PlanReachable
    /\ plan_start # plan_goal
    /\ plan_grid[plan_goal[1]][plan_goal[2]] = 0
    /\ plan_path = None

(***************************************************************************)
(* NavSim.  The model instance is a small grid: ROWS x COLS cells of CELL  *)
(* pixels with one static wall and OBSTACLE_COUNT dynamic obstacles (the   *)
(* source runs 14 x 20 cells of 36 pixels with 10 obstacles).  Positions   *)
(* are held in tenths of a pixel, as <<x, y>>.                             *)
(*                                                                         *)
(* run() dispatches the key handlers, the obstacle tick and draw() on the  *)
(* main thread, one after the other: each is one action.  animate_robot    *)
(* runs on its own thread; the interpreter may switch threads at the loop  *)
(* head, after the end-of-path test, at every sleep and at every print     *)
(* (add_log): these are the task's positions, and the code between two of  *)
(* them is one action.                                                     *)
(*                                                                         *)
(* detected_cells is written by draw() and cleared by reset.  Spec follows *)
(* the navigation between two sweeps that found nothing; SpecSweep follows *)
(* the sweep of the parked robot while the obstacles move.                 *)
(***************************************************************************)
ROWS == 3
COLS == 3
CELL == 5
OBSTACLE_COUNT == 2
LIDAR_RANGE_CELLS == 1
\* motion threads that can be alive at once
MaxTasks == 2
\* events run() dispatches (key commands and obstacle ticks)
MaxCmds == 3
\* lines add_log keeps (6 in the source)
LOG_KEEP == 1

\* degrees per LIDAR beam
LIDAR_ANGLE_STEP == 6
\* ROBOT_SPEED * speed = 140.0 * 0.02 pixels per iteration, in tenths
STEP == 28
\* `if dist < 4`, in tenths of a pixel
ARRIVE_DIST == 40

Cells == CellsOf(ROWS, COLS)

\* the demo static walls of __init__, scaled to the model's grid
StaticWalls == {<<1, 0>>}

\* self.start = (rows - 2, 2); self.goal = (2, cols - 3)
start == <<ROWS - 2, 2>>
goal == <<2, COLS - 3>>

\* cell_center(cell): [x, y] of the cell's centre
cell_center(cell) ==
    <<(cell[2] * CELL + CELL \div 2) * 10, (cell[1] * CELL + CELL \div 2) * 10>>

\* add_log(txt): append, and drop the oldest line beyond LOG_KEEP
add_log(lines, txt) ==
    LET appended == Append(lines, txt)
    IN  IF Len(appended) > LOG_KEEP THEN Tail(appended) ELSE appended

Min(a, b) == IF a < b THEN a ELSE b

\* the subsets of `cells` with k elements
RECURSIVE Subsets(_, _)
Subsets(cells, k) ==
    IF k = 0 THEN {{}}
    ELSE IF cells = {} THEN {}
    ELSE LET cell == CHOOSE c \in cells : TRUE
         IN  Subsets(cells \ {cell}, k)
                \cup {chosen \cup {cell} : chosen \in Subsets(cells \ {cell}, k - 1)}

\* spawn_dynamic: the free list
SpawnFree ==
    {cell \in Cells : grid[cell[1]][cell[2]] = 0 /\ cell # start /\ cell # goal}

\* spawn_dynamic(n): the sets random.shuffle can put first in the free list
SpawnChoices(n) == Subsets(SpawnFree, Min(n, Cardinality(SpawnFree)))

\* current_grid(): the static grid with the dynamic and the detected cells
\* (those in bounds) marked 1
\* the static grid alone, obstacles left out
current_grid_static == grid

\* the view without the loop over self.detected_cells
current_grid_undetected ==
    [r \in 0 .. ROWS - 1 |-> [c \in 0 .. COLS - 1 |->
        IF <<r, c>> \in dynamic THEN 1 ELSE grid[r][c]]]

current_grid ==
    [r \in 0 .. ROWS - 1 |-> [c \in 0 .. COLS - 1 |->
        IF <<r, c>> \in dynamic \/ <<r, c>> \in detected_cells THEN 1 ELSE grid[r][c]]]

\* compute_path(start_cell, goal_cell)
compute_path(start_cell, goal_cell) == astar(current_grid, start_cell, goal_cell)

SimInit ==
    /\ AppIdle
    /\ plan_grid = <<>> /\ plan_start = <<0, 0>> /\ plan_goal = <<0, 0>>
    /\ plan_path = <<>> /\ plan_pc = "off"
    /\ grid = GridOf(ROWS, COLS, StaticWalls)
    /\ dynamic \in SpawnChoices(OBSTACLE_COUNT)
    /\ robot_cell = start
    /\ robot_pos = cell_center(start)
    /\ path = <<>>
    /\ path_index = 0
    /\ moving = FALSE
    /\ paused = FALSE
    /\ returning = FALSE
    /\ detected_cells = {}
    /\ log_lines = <<"Ready">>
    /\ task = [t \in 1 .. MaxTasks |-> [pc |-> "idle", path |-> <<>>]]
    /\ last_cmd = "none"
    /\ cmds = 0
    /\ cancelled = {}

(***************************************************************************)
(* The main thread: key handlers, obstacle tick.                           *)
(***************************************************************************)
\* the threads between the settle delay and the return path, or between the
\* obstacle-detected line and the new path
PlanInFlight == {t \in 1 .. MaxTasks : task[t].pc \in {"settle", "replan"}}

\* the threads that have not returned
LiveTasks == {t \in 1 .. MaxTasks : task[t].pc # "idle"}

\* run() dispatches one event
Command(name) ==
    /\ cmds < MaxCmds
    /\ cmds' = cmds + 1
    /\ last_cmd' = name
    /\ cancelled' = IF name \in {"stop", "reset"} THEN PlanInFlight ELSE {}

IdleTasks == {t \in 1 .. MaxTasks : task[t].pc = "idle"}

\* threading.Thread(target=self.animate_robot, args=(path, speed)).start()
StartThread(p) ==
    LET t == CHOOSE i \in IdleTasks : \A j \in IdleTasks : i <= j
    IN  task' = [task EXCEPT ![t] = [pc |-> "spawned", path |-> p]]

\* start_navigation without the test of self.moving
StartNavigation_unguarded ==
    /\ Command("start")
    /\ LET p == astar(current_grid, robot_cell, goal)
       IN  IF p = None
           THEN /\ log_lines' = add_log(log_lines, "No initial path found")
                /\ UNCHANGED task
           ELSE /\ IdleTasks # {}
                /\ StartThread(p)
                /\ UNCHANGED log_lines
    /\ UNCHANGED <<plan_vars, app_vars, grid, dynamic, robot_cell, robot_pos, path, path_index,
                   moving, paused, returning, detected_cells>>

\* start_navigation (SPACE)
StartNavigation ==
    /\ Command("start")
    /\ IF moving
       THEN /\ log_lines' = add_log(log_lines, "Already navigating")
            /\ UNCHANGED task
       ELSE LET p == astar(current_grid, robot_cell, goal)
            IN  IF p = None
                THEN /\ log_lines' = add_log(log_lines, "No initial path found")
                     /\ UNCHANGED task
                ELSE /\ IdleTasks # {}
                     /\ StartThread(p)
                     /\ UNCHANGED log_lines
    /\ UNCHANGED <<plan_vars, app_vars, grid, dynamic, robot_cell, robot_pos, path, path_index,
                   moving, paused, returning, detected_cells>>

\* run(): K_p
TogglePause ==
    /\ Command("pause")
    /\ paused' = ~paused
    /\ log_lines' = add_log(log_lines, IF paused' THEN "Paused=True" ELSE "Paused=False")
    /\ UNCHANGED <<plan_vars, app_vars, grid, dynamic, robot_cell, robot_pos, path, path_index,
                   moving, returning, detected_cells, task>>

\* stop_navigation
StopNavigation ==
    /\ Command("stop")
    /\ moving' = FALSE
    /\ UNCHANGED <<plan_vars, app_vars, grid, dynamic, robot_cell, robot_pos, path, path_index,
                   paused, returning, detected_cells, log_lines, task>>

\* reset (R)
Reset ==
    /\ Command("reset")
    /\ dynamic' \in SpawnChoices(OBSTACLE_COUNT)
    /\ robot_cell' = start
    /\ robot_pos' = cell_center(start)
    /\ path' = <<>>
    /\ path_index' = 0
    /\ moving' = FALSE
    /\ returning' = FALSE
    /\ detected_cells' = {}
    /\ log_lines' = add_log(log_lines, "Simulation reset")
    /\ UNCHANGED <<plan_vars, app_vars, grid, paused, task>>

\* toggle_dynamic (O)
ToggleDynamic ==
    /\ Command("toggle")
    /\ IF dynamic # {}
       THEN /\ dynamic' = {}
            /\ log_lines' = add_log(log_lines, "Dynamic obstacles OFF")
       ELSE /\ \E chosen \in SpawnChoices(OBSTACLE_COUNT) : dynamic' = dynamic \cup chosen
            /\ log_lines' = add_log(log_lines, "Dynamic obstacles ON")
    /\ UNCHANGED <<plan_vars, app_vars, grid, robot_cell, robot_pos, path, path_index,
                   moving, paused, returning, detected_cells, task>>

\* move_dynamic without the start/goal exclusion
MoveOk_overStartGoal(cell) ==
    /\ InRange(ROWS, COLS, cell)
    /\ grid[cell[1]][cell[2]] = 0
    /\ cell \notin dynamic

\* the test without `(nr,nc) not in self.dynamic`
MoveOk_ontoObstacle(cell) ==
    /\ InRange(ROWS, COLS, cell)
    /\ grid[cell[1]][cell[2]] = 0
    /\ cell # start
    /\ cell # goal

\* move_dynamic: the test a candidate cell (nr, nc) must pass
MoveOk(cell) ==
    /\ InRange(ROWS, COLS, cell)
    /\ grid[cell[1]][cell[2]] = 0
    /\ cell \notin dynamic
    /\ cell # start
    /\ cell # goal

\* dirs = [(0,0),(1,0),(-1,0),(0,1),(0,-1)]
MoveDirs == {<<0, 0>>, <<1, 0>>, <<-1, 0>>, <<0, 1>>, <<0, -1>>}

\* move_dynamic: where the obstacle on `cell` can be after the tick.  With
\* probability 0.4 it stays; otherwise the directions are shuffled and the
\* first candidate that passes the test is taken, so every passing candidate
\* can be the one taken; it stays when none passes.
MoveOutcomes(cell) ==
    LET passing == {n \in {<<cell[1] + d[1], cell[2] + d[2]>> : d \in MoveDirs} : MoveOk(n)}
    IN  {cell} \cup passing

\* move_dynamic(): for (r,c) in list(self.dynamic): newset.add(...).  The
\* sets newset can be once the obstacles in `rest` have been added to one of
\* `newsets`.
RECURSIVE move_dynamic(_, _)
move_dynamic(rest, newsets) ==
    IF rest = {} THEN newsets
    ELSE LET cell == CHOOSE c \in rest : TRUE
         IN  move_dynamic(rest \ {cell},
                          {newset \cup {to} : newset \in newsets, to \in MoveOutcomes(cell)})

\* run(): the 0.8 s obstacle tick, `if self.dynamic: self.move_dynamic()`
MoveDynamic ==
    /\ Command("tick")
    /\ dynamic # {}
    /\ dynamic' \in move_dynamic(dynamic, {{}})
    /\ UNCHANGED <<plan_vars, app_vars, grid, robot_cell, robot_pos, path, path_index,
                   moving, paused, returning, detected_cells, log_lines, task>>

(***************************************************************************)
(* draw(): the LIDAR-like sweep.  Sines are held in millionths.  The sweep *)
(* casts a beam at every multiple of LIDAR_ANGLE_STEP plus the offset      *)
(* last_lidar_angle, itself a multiple of the step: the set of beams is    *)
(* the same at every call, and the offset is left out.                     *)
(***************************************************************************)
TRIG_ONE == 1000000

\* math.sin at 0, 6, ..., 90 degrees
SinTab ==
    <<0, 104528, 207912, 309017, 406737, 500000, 587785, 669131,
      743145, 809017, 866025, 913545, 951057, 978148, 994522, 1000000>>

\* math.sin(math.radians(a)) for a multiple of LIDAR_ANGLE_STEP
Sin(a) ==
    LET b == a % 360
    IN  IF b <= 90 THEN SinTab[b \div LIDAR_ANGLE_STEP + 1]
        ELSE IF b <= 180 THEN SinTab[(180 - b) \div LIDAR_ANGLE_STEP + 1]
        ELSE IF b <= 270 THEN 0 - SinTab[(b - 180) \div LIDAR_ANGLE_STEP + 1]
        ELSE 0 - SinTab[(360 - b) \div LIDAR_ANGLE_STEP + 1]

\* math.cos(math.radians(a))
Cos(a) == Sin(a + 90)

\* int((c + trig * (d * cell)) // cell): the index of the cell sampled at
\* distance d.  When the sample lies exactly on a cell boundary the rounding
\* of the floating-point sum decides between the two cells: either is taken.
SampleIndex(coord, trig, d) ==
    LET num == coord * TRIG_ONE + trig * d * CELL * 10
        den == CELL * 10 * TRIG_ONE
    IN  IF num % den = 0 THEN {num \div den - 1, num \div den} ELSE {num \div den}

\* a beam that found nothing
NoHit == <<-1, -1>>

\* self.grid[rr][cc] == 1 or (rr,cc) in self.dynamic
Occupied(cell) == grid[cell[1]][cell[2]] = 1 \/ cell \in dynamic

\* a beam that goes on past occupied cells and reports the last one it meets
RECURSIVE Beam_through(_, _, _, _)
Beam_through(pos, range, a, d) ==
    IF d > range THEN {NoHit}
    ELSE UNION {IF InRange(ROWS, COLS, <<rr, cc>>)
                THEN LET beyond == Beam_through(pos, range, a, d + 1)
                     IN  IF Occupied(<<rr, cc>>) /\ beyond = {NoHit}
                         THEN {<<rr, cc>>}
                         ELSE beyond
                ELSE {NoHit} :
                   rr \in SampleIndex(pos[2], Sin(a), d),
                   cc \in SampleIndex(pos[1], Cos(a), d)}

\* for d in range(1, LIDAR_RANGE_CELLS+1): the cell the beam at angle a stops
\* on (NoHit when it leaves the grid or reaches the range), from sample d on
RECURSIVE Beam(_, _, _, _)
Beam(pos, range, a, d) ==
    IF d > range THEN {NoHit}
    ELSE UNION {IF InRange(ROWS, COLS, <<rr, cc>>)
                THEN IF Occupied(<<rr, cc>>) THEN {<<rr, cc>>}
                     ELSE Beam(pos, range, a, d + 1)
                ELSE {NoHit} :
                   rr \in SampleIndex(pos[2], Sin(a), d),
                   cc \in SampleIndex(pos[1], Cos(a), d)}

\* for angle_deg in range(0, 360, LIDAR_ANGLE_STEP)
BeamAngles == {k * LIDAR_ANGLE_STEP : k \in 0 .. 360 \div LIDAR_ANGLE_STEP - 1}

\* the detected sets of the beams in `angles` added to those in `acc`
RECURSIVE Sweep(_, _, _, _)
Sweep(pos, range, angles, acc) ==
    IF angles = {} THEN acc
    ELSE LET a == CHOOSE x \in angles : TRUE
         IN  Sweep(pos, range, angles \ {a},
                   {found \cup ({hit} \ {NoHit}) :
                       found \in acc, hit \in Beam(pos, range, a, 1)})

\* lidar_scan(): the detected sets a sweep from robot_pos can return
lidar_scan(pos, range) == Sweep(pos, range, BeamAngles, {{}})

\* draw(): self.detected_cells = detected
Draw ==
    /\ detected_cells' \in lidar_scan(robot_pos, LIDAR_RANGE_CELLS)
    /\ UNCHANGED <<plan_vars, app_vars, grid, dynamic, robot_cell, robot_pos, path, path_index,
                   moving, paused, returning, log_lines, task, last_cmd, cmds, cancelled>>

(***************************************************************************)
(* The motion thread: animate_robot(path, speed).                          *)
(***************************************************************************)
At(t, pc) == task[t].pc = pc

Goto(t, pc) == task' = [task EXCEPT ![t].pc = pc]

\* the thread returns (or dies): its slot is free again
Exit(t) == task' = [task EXCEPT ![t] = [pc |-> "idle", path |-> <<>>]]

\* math.hypot(dx, dy), rounded down to a tenth of a pixel
Hypot(dx, dy) ==
    IF dx = 0 THEN Abs(dy)
    ELSE IF dy = 0 THEN Abs(dx)
    ELSE CHOOSE k \in 0 .. Abs(dx) + Abs(dy) :
            k * k <= dx * dx + dy * dy /\ dx * dx + dy * dy < (k + 1) * (k + 1)

\* an interpolation that does not move
Advance_still(d, dist) == 0

\* d / dist * step, rounded toward zero to a tenth of a pixel
Advance(d, dist) ==
    IF d < 0 THEN 0 - ((0 - d) * STEP) \div dist ELSE (d * STEP) \div dist

\* nxt in self.dynamic or self.grid[nxt[0]][nxt[1]]==1 or nxt in self.detected_cells
Blocked(nxt) ==
    nxt \in dynamic \/ grid[nxt[1]][nxt[2]] = 1 \/ nxt \in detected_cells

\* animate_robot entered without the "Path found" entry
TaskSpawned_silent(t) ==
    /\ At(t, "spawned")
    /\ IF task[t].path = None
       THEN /\ moving' = FALSE
            /\ Exit(t)
       ELSE /\ Goto(t, "begin")
            /\ UNCHANGED moving
    /\ UNCHANGED <<plan_vars, app_vars, grid, dynamic, robot_cell, robot_pos, path, path_index,
                   paused, returning, detected_cells, log_lines, last_cmd, cmds, cancelled>>

\* lines 242-247: the thread starts and logs the path it was given
TaskSpawned(t) ==
    /\ At(t, "spawned")
    /\ IF task[t].path = None
       THEN /\ log_lines' = add_log(log_lines, "No path found")
            /\ moving' = FALSE
            /\ Exit(t)
       ELSE /\ log_lines' = add_log(log_lines, "Path found")
            /\ Goto(t, "begin")
            /\ UNCHANGED moving
    /\ UNCHANGED <<plan_vars, app_vars, grid, dynamic, robot_cell, robot_pos, path, path_index,
                   paused, returning, detected_cells, last_cmd, cmds, cancelled>>

\* lines 248-252
TaskBegin(t) ==
    /\ At(t, "begin")
    /\ moving' = TRUE
    /\ returning' = FALSE
    /\ path' = task[t].path
    /\ path_index' = 0
    /\ task' = [task EXCEPT ![t] = [pc |-> "loop", path |-> <<>>]]
    /\ UNCHANGED <<plan_vars, app_vars, grid, dynamic, robot_cell, robot_pos,
                   paused, detected_cells, log_lines, last_cmd, cmds, cancelled>>

\* lines 255-257: the loop head finds moving cleared
TaskAborted(t) ==
    /\ At(t, "loop")
    /\ ~moving
    /\ log_lines' = add_log(log_lines, "Navigation aborted")
    /\ Exit(t)
    /\ UNCHANGED <<plan_vars, app_vars, grid, dynamic, robot_cell, robot_pos, path, path_index,
                   moving, paused, returning, detected_cells, last_cmd, cmds, cancelled>>

\* lines 258-259: paused, sleep and try again
TaskPaused(t) ==
    /\ At(t, "loop")
    /\ moving /\ paused
    /\ UNCHANGED vars

\* lines 255-259 passed
TaskLoop(t) ==
    /\ At(t, "loop")
    /\ moving /\ ~paused
    /\ Goto(t, "chk")
    /\ UNCHANGED <<plan_vars, app_vars, grid, dynamic, robot_cell, robot_pos, path, path_index,
                   moving, paused, returning, detected_cells, log_lines,
                   last_cmd, cmds, cancelled>>

\* lines 260-263 and 279-280: the end-of-path test
TaskChk(t) ==
    /\ At(t, "chk")
    /\ IF path_index >= Len(path)
       THEN IF ~returning
            THEN /\ log_lines' = add_log(log_lines, "Reached pharmacy")
                 /\ Goto(t, "settle")
            ELSE /\ log_lines' = add_log(log_lines, "Returned to start")
                 /\ Goto(t, "stopping")
       ELSE /\ Goto(t, "move")
            /\ UNCHANGED log_lines
    /\ UNCHANGED <<plan_vars, app_vars, grid, dynamic, robot_cell, robot_pos, path, path_index,
                   moving, paused, returning, detected_cells, last_cmd, cmds, cancelled>>

\* lines 264-278: after the 0.6 s settle delay, the return path
TaskSettle(t) ==
    /\ At(t, "settle")
    /\ returning' = TRUE
    /\ LET newpath == compute_path(goal, start)
       IN  IF newpath = None
           THEN /\ log_lines' = add_log(log_lines, "No return path found")
                /\ Goto(t, "stopping")
                /\ UNCHANGED <<path, path_index>>
           ELSE /\ path' = newpath
                /\ path_index' = 0
                /\ log_lines' = add_log(log_lines, "Return path computed")
                /\ Goto(t, "loop")
    /\ UNCHANGED <<plan_vars, app_vars, grid, dynamic, robot_cell, robot_pos,
                   moving, paused, detected_cells, last_cmd, cmds, cancelled>>

\* lines 285-318: one step toward path[path_index]
TaskMove(t) ==
    /\ At(t, "move")
    /\ IF path_index >= Len(path)
       THEN \* self.path[self.path_index] raises IndexError: the thread dies
            /\ Exit(t)
            /\ UNCHANGED <<robot_cell, robot_pos, path_index, log_lines>>
       ELSE LET target == path[path_index + 1]
                centre == cell_center(target)
                dx == centre[1] - robot_pos[1]
                dy == centre[2] - robot_pos[2]
            IN  IF dx * dx + dy * dy < ARRIVE_DIST * ARRIVE_DIST
                THEN \* arrive at cell
                     /\ robot_cell' = target
                     /\ robot_pos' = centre
                     /\ path_index' = path_index + 1
                     /\ IF path_index + 1 < Len(path) /\ Blocked(path[path_index + 2])
                        THEN /\ log_lines' = add_log(log_lines, "Obstacle detected")
                             /\ Goto(t, "replan")
                        ELSE /\ Goto(t, "loop")
                             /\ UNCHANGED log_lines
                ELSE \* interpolation move, then sleep(speed)
                     /\ robot_pos' = <<robot_pos[1] + Advance(dx, Hypot(dx, dy)),
                                       robot_pos[2] + Advance(dy, Hypot(dx, dy))>>
                     /\ Goto(t, "loop")
                     /\ UNCHANGED <<robot_cell, path_index, log_lines>>
    /\ UNCHANGED <<plan_vars, app_vars, grid, dynamic, path, moving, paused, returning,
                   detected_cells, last_cmd, cmds, cancelled>>

\* a replan that heads for the goal whatever the phase
goalcell_alwaysGoal == goal

\* goalcell = self.start if self.returning else self.goal
goalcell == IF returning THEN start ELSE goal

\* lines 301-311: replan from the current cell to the active destination
TaskReplan(t) ==
    /\ At(t, "replan")
    /\ LET newp == compute_path(robot_cell, goalcell)
       IN  IF newp # None
           THEN /\ path' = newp
                /\ path_index' = 0
                /\ log_lines' = add_log(log_lines, "New path found")
                /\ Goto(t, "loop")
           ELSE /\ log_lines' = add_log(log_lines, "No alternative path found")
                /\ Goto(t, "stopping")
                /\ UNCHANGED <<path, path_index>>
    /\ UNCHANGED <<plan_vars, app_vars, grid, dynamic, robot_cell, robot_pos,
                   moving, paused, returning, detected_cells, last_cmd, cmds, cancelled>>

\* a return that leaves moving set
TaskStopping_stillMoving(t) ==
    /\ At(t, "stopping")
    /\ Exit(t)
    /\ UNCHANGED <<plan_vars, app_vars, grid, dynamic, robot_cell, robot_pos, path, path_index,
                   moving, paused, returning, detected_cells, log_lines, last_cmd, cmds,
                   cancelled>>

\* lines 272-273, 282-283, 312-313: self.moving = False; return
TaskStopping(t) ==
    /\ At(t, "stopping")
    /\ moving' = FALSE
    /\ Exit(t)
    /\ UNCHANGED <<plan_vars, app_vars, grid, dynamic, robot_cell, robot_pos, path, path_index,
                   paused, returning, detected_cells, log_lines, last_cmd, cmds, cancelled>>

TaskStep(t) ==
    \/ TaskSpawned(t)
    \/ TaskBegin(t)
    \/ TaskAborted(t)
    \/ TaskPaused(t)
    \/ TaskLoop(t)
    \/ TaskChk(t)
    \/ TaskSettle(t)
    \/ TaskMove(t)
    \/ TaskReplan(t)
    \/ TaskStopping(t)

Next ==
    \/ StartNavigation
    \/ TogglePause
    \/ StopNavigation
    \/ Reset
    \/ ToggleDynamic
    \/ MoveDynamic
    \/ \E t \in 1 .. MaxTasks : TaskStep(t)

Spec == SimInit /\ [][Next]_vars

(***************************************************************************)
(* The obstacle handlers alone: construction, then any sequence of reset,  *)
(* toggle_dynamic and obstacle ticks.                                      *)
(***************************************************************************)
MoverNext ==
    \/ Reset
    \/ ToggleDynamic
    \/ MoveDynamic

SpecMover == SimInit /\ [][MoverNext]_vars

(***************************************************************************)
(* The sweep of the parked robot: construction, then draw() and the        *)
(* obstacle handlers in any order.                                         *)
(***************************************************************************)
SweepNext ==
    \/ Draw
    \/ MoverNext

SpecSweep == SimInit /\ [][SweepNext]_vars

(***************************************************************************)
(* One trip: construction, optionally toggle_dynamic (obstacles off), one  *)
(* start_navigation, and the motion thread scheduled fairly.  No pause,    *)
(* stop, reset or obstacle tick is dispatched, so the thread never finds   *)
(* moving cleared, paused set or the next cell blocked.                    *)
(***************************************************************************)
TripToggle == cmds = 0 /\ ToggleDynamic

TripStart == last_cmd # "start" /\ StartNavigation

TripStep(t) ==
    \/ TaskSpawned(t)
    \/ TaskBegin(t)
    \/ TaskLoop(t)
    \/ TaskChk(t)
    \/ TaskSettle(t)
    \/ TaskMove(t)
    \/ TaskStopping(t)

TripNext ==
    \/ TripToggle
    \/ TripStart
    \/ \E t \in 1 .. MaxTasks : TripStep(t)

\* the steps of a thread that call no planner
TripMotion(t) ==
    \/ TaskSpawned(t)
    \/ TaskBegin(t)
    \/ TaskLoop(t)
    \/ TaskChk(t)
    \/ TaskMove(t)
    \/ TaskStopping(t)

\* A started thread is a running OS thread: it is scheduled again and again
\* (weak fairness of its steps).  TaskSettle(t) is enabled exactly when thread
\* t is at "settle" and it always changes task[t].pc, so its weak fairness
\* WF_vars(\E t : TaskSettle(t)) is written out as "infinitely often no
\* thread is at settle, or infinitely often a settle step is taken", which
\* spares evaluating the planner inside ENABLED.
TripFair ==
    /\ WF_vars(\E t \in 1 .. MaxTasks : TripMotion(t))
    /\ \/ []<>(\A t \in 1 .. MaxTasks : ~At(t, "settle"))
       \/ []<><<\E t \in 1 .. MaxTasks : TaskSettle(t)>>_vars

SpecTrip == SimInit /\ [][TripNext]_vars /\ TripFair

(***************************************************************************)
(* Reset, then start: any number of P presses, one reset, one              *)
(* start_navigation, and the started thread scheduled fairly as in         *)
(* SpecTrip.  The thread may find paused set at its loop head.             *)
(***************************************************************************)
FreezePause == last_cmd \in {"none", "pause"} /\ TogglePause

FreezeReset == last_cmd \in {"none", "pause"} /\ Reset

FreezeStart == last_cmd = "reset" /\ StartNavigation

FreezeNext ==
    \/ FreezePause
    \/ FreezeReset
    \/ FreezeStart
    \/ \E t \in 1 .. MaxTasks : TripStep(t) \/ TaskPaused(t)

SpecFreeze == SimInit /\ [][FreezeNext]_vars /\ TripFair

(***************************************************************************)
(* The trip with the frames of run(): draw() sweeps the lidar between any  *)
(* two steps of the motion thread, so also while the robot is between two  *)
(* path cells.                                                             *)
(***************************************************************************)
ScanNext ==
    \/ Draw
    \/ TripNext

SpecScan == SimInit /\ [][ScanNext]_vars

(***************************************************************************)
(* The operations that build or feed the composite view, with the robot on *)
(* the start cell: sweeps, obstacle ticks, toggle and reset, and           *)
(* start_navigation planning on the view, up to the point where the        *)
(* started thread has taken over its path.                                 *)
(***************************************************************************)
ViewNext ==
    \/ SweepNext
    \/ StartNavigation
    \/ \E t \in 1 .. MaxTasks : TaskSpawned(t) \/ TaskBegin(t)

SpecView == SimInit /\ [][ViewNext]_vars

(***************************************************************************)
(* Properties of the simulation.                                           *)
(***************************************************************************)

\* a step of a motion thread (run() dispatched nothing)
ThreadStep == cmds' = cmds /\ task' # task

\* C4: in every reachable state the robot's cell holds no dynamic obstacle:
\* the robot never arrives on an obstacle's cell and no obstacle is moved or
\* spawned onto the robot's cell.
C4_RobotCellFree == robot_cell \notin dynamic

\* an obstacle tick has put an obstacle on the cell of a robot under way
C4_Witness == last_cmd = "tick" /\ moving /\ robot_cell \in dynamic

\* C5: while a dynamic obstacle occupies the next cell of the path, the cell
\* the robot is heading for, no thread step moves the robot (in transit
\* included): the thread logs the obstacle and replans before any motion.
C5_NoAdvanceIntoBlocked ==
    [][(ThreadStep /\ path_index < Len(path) /\ path[path_index + 1] \in dynamic)
          => robot_pos' = robot_pos]_vars

\* the robot in transit toward a cell an obstacle has come to occupy
C5_Witness ==
    /\ \E t \in LiveTasks : task[t].pc \in {"loop", "chk", "move"}
    /\ moving
    /\ path_index < Len(path)
    /\ path[path_index + 1] \in dynamic
    /\ robot_pos # cell_center(robot_cell)

\* C6: start_navigation twice in immediate succession from the constructed,
\* idle simulation: when the first call launched a motion thread that has not
\* returned, the second call launches none.
C6_StartIdempotent ==
    [][(cmds = 1 /\ last_cmd = "start" /\ LiveTasks # {}
          /\ cmds' = 2 /\ last_cmd' = "start") => LiveTasks' = LiveTasks]_vars

\* two motion threads after two start_navigation calls
C6_Witness == cmds = 2 /\ last_cmd = "start" /\ Cardinality(LiveTasks) = 2

\* C7: a thread that had a plan in flight (return path or replan) when
\* stop_navigation or reset was dispatched writes nothing of its result: its
\* steps leave path, path_index, returning, robot_cell and robot_pos alone.
C7_CancelledPlanIsNoOp ==
    [][\A t \in cancelled : task'[t] # task[t]
          => UNCHANGED <<path, path_index, returning, robot_cell, robot_pos>>]_vars

\* stop_navigation or reset dispatched while a plan is in flight
C7_Witness == cancelled # {} /\ ~moving

\* C8: after reset, until the next event, the simulation is idle with the
\* robot on the start cell, at its centre, the path empty, path_index 0, and
\* the obstacles on free cells other than start and goal.
C8_ResetState ==
    last_cmd = "reset" =>
        /\ ~moving
        /\ robot_cell = start
        /\ robot_pos = cell_center(start)
        /\ path = <<>>
        /\ path_index = 0
        /\ dynamic \subseteq SpawnFree

\* reset dispatched while a motion thread was running
C8_Witness == last_cmd = "reset" /\ LiveTasks # {}

\* C9: after any sequence of construction, reset, toggle_dynamic and
\* obstacle ticks every dynamic obstacle is in bounds, on a cell that is not
\* a wall, not the start cell and not the goal cell.
C9_ObstaclesLegal ==
    \A cell \in dynamic :
        /\ InRange(ROWS, COLS, cell)
        /\ grid[cell[1]][cell[2]] = 0
        /\ cell # start
        /\ cell # goal

\* after a reset, a toggle pair or a tick, obstacles next to start and goal
C9_Witness ==
    /\ cmds = MaxCmds
    /\ last_cmd = "tick"
    /\ \E cell \in dynamic : heuristic(cell, start) = 1
    /\ \E cell \in dynamic : heuristic(cell, goal) = 1

\* C10: an obstacle tick never puts two obstacles on one cell: the number
\* of dynamic obstacles after the tick is the number before it.
C10_TickKeepsCount ==
    [][(cmds' = cmds + 1 /\ last_cmd' = "tick")
          => Cardinality(dynamic') = Cardinality(dynamic)]_vars

\* a tick has left fewer obstacles than spawn_dynamic placed
C10_Witness ==
    /\ last_cmd = "tick"
    /\ dynamic # {}
    /\ Cardinality(dynamic) < OBSTACLE_COUNT

\* C11: a replan that finds a path plans from the robot's cell to the goal
\* while the phase is outbound and to the start while it is returning: the
\* path it writes begins on robot_cell and ends on that destination.
C11_ReplanKeepsDestination ==
    [][\A t \in 1 .. MaxTasks :
          (task[t].pc = "replan" /\ task'[t].pc = "loop")
             => /\ path'[1] = robot_cell
                /\ path'[Len(path')] = (IF returning THEN start ELSE goal)]_vars

\* a replan on the way back has written a path to the start
C11_Witness ==
    /\ moving /\ returning
    /\ log_lines = <<"New path found">>
    /\ path_index = 0
    /\ path # <<>> /\ path[Len(path)] = start /\ path[1] = robot_cell
    /\ robot_cell # goal

\* C12: a replan that finds no path appends "No alternative path found"
\* once and moves nothing; the thread's next step clears moving and returns,
\* again without motion and without another log line.
C12_ReplanFailureAborts ==
    [][\A t \in 1 .. MaxTasks :
          /\ (task[t].pc = "replan" /\ task'[t].pc # "loop" /\ task'[t] # task[t])
                => /\ task'[t].pc = "stopping"
                   /\ log_lines' = add_log(log_lines, "No alternative path found")
                   /\ UNCHANGED <<robot_cell, robot_pos, path, path_index, returning>>
          /\ (task[t].pc = "stopping" /\ task'[t] # task[t])
                => /\ task'[t].pc = "idle"
                   /\ ~moving'
                   /\ UNCHANGED <<robot_cell, robot_pos, path, path_index, returning,
                                  log_lines>>]_vars

\* the run has been aborted by a failed replan, short of the goal
C12_Witness ==
    /\ log_lines = <<"No alternative path found">>
    /\ ~moving
    /\ LiveTasks = {}
    /\ robot_cell \notin {start, goal}
    /\ path_index < Len(path)
    /\ path[path_index + 1] \in dynamic

\* the last line of the log
LastLog == IF log_lines = <<>> THEN "" ELSE log_lines[Len(log_lines)]

\* C13: once a failed replan has aborted the run (its line is still the last
\* of the log, so no reset has run since, and the thread has returned), a
\* start_navigation starts no motion thread.
C13_AbortedNeedsReset ==
    [][(LastLog = "No alternative path found" /\ LiveTasks = {}
          /\ cmds' = cmds + 1 /\ last_cmd' = "start") => task' = task]_vars

\* start_navigation has started a thread on the aborted run
C13_Witness ==
    /\ LastLog = "No alternative path found"
    /\ last_cmd = "start"
    /\ LiveTasks # {}
    /\ ~moving

\* C14: with no dynamic obstacles and no pause, stop or reset, one
\* start_navigation leads the fairly scheduled thread to the goal ("Reached
\* pharmacy", logged on the goal while outbound), then back to the start
\* ("Returned to start", logged on the start while returning), where the
\* thread ends with moving cleared; no replan happens, the thread never finds
\* moving cleared or paused set, and on the empty 5x5 grid the path from
\* (0,0) to (4,4) has 9 cells.
C14_RoundTrip ==
    /\ (dynamic = {} /\ LiveTasks # {} /\ ~returning)
          ~> (LastLog = "Reached pharmacy" /\ robot_cell = goal
                /\ moving /\ ~returning)
    /\ (dynamic = {} /\ LastLog = "Reached pharmacy")
          ~> (LastLog = "Returned to start" /\ robot_cell = start
                /\ robot_pos = cell_center(start) /\ returning
                /\ ~moving /\ LiveTasks = {})
    /\ [][(dynamic = {} /\ LastLog' # LastLog /\ LastLog' = "Reached pharmacy")
             => (robot_cell = goal /\ ~returning)]_vars
    /\ [][(dynamic = {} /\ LastLog' # LastLog /\ LastLog' = "Returned to start")
             => (robot_cell = start /\ returning)]_vars
    /\ [][(dynamic = {} /\ returning) => returning']_vars
    /\ [](dynamic = {} =>
            \A t \in 1 .. MaxTasks :
               /\ task[t].pc # "replan"
               /\ task[t].pc = "loop" => (moving /\ ~paused))
    /\ [](Len(astar(GridOf(5, 5, {}), <<0, 0>>, <<4, 4>>)) = 9)

\* the round trip is over
C14_Witness ==
    /\ dynamic = {}
    /\ LastLog = "Returned to start"
    /\ LiveTasks = {}
    /\ ~moving /\ returning
    /\ robot_cell = start


\* the handler of a start_navigation call has just run
StartIssued == cmds' = cmds + 1 /\ last_cmd' = "start"

\* C15: start_navigation called while moving is set starts no thread and
\* changes neither the robot's cell and position, the path, the path index,
\* the moving and returning flags, nor the obstacle sets; it appends the one
\* log entry "Already navigating".
C15_StartWhileMovingNoOp ==
    [][(moving /\ StartIssued)
          => /\ log_lines' = add_log(log_lines, "Already navigating")
             /\ UNCHANGED <<task, robot_cell, robot_pos, path, path_index, moving,
                            returning, paused, grid, dynamic, detected_cells>>]_vars

\* start_navigation was called during a trip
C15_Witness ==
    /\ last_cmd = "start"
    /\ LastLog = "Already navigating"
    /\ moving
    /\ LiveTasks # {}
    /\ path # <<>>

\* no 4-connected route from the robot's cell to the goal avoids the walls,
\* the dynamic obstacles and the detected cells
NoRoute ==
    ShortestCells(GridOf(ROWS, COLS, WallsOf(grid) \cup dynamic \cup detected_cells),
                  robot_cell, goal) = 0

\* C16: start_navigation called with moving clear and no route to the goal
\* logs "No initial path found", starts no thread and leaves moving clear and
\* the robot's cell and position, the path, the path index and the returning
\* flag unchanged.
C16_StartWithoutPath ==
    [][(~moving /\ StartIssued /\ NoRoute)
          => /\ log_lines' = add_log(log_lines, "No initial path found")
             /\ ~moving'
             /\ UNCHANGED <<task, robot_cell, robot_pos, path, path_index,
                            returning, paused, grid, dynamic, detected_cells>>]_vars

\* start_navigation found the goal walled in and nothing runs
C16_Witness ==
    /\ last_cmd = "start"
    /\ LastLog = "No initial path found"
    /\ NoRoute
    /\ ~moving
    /\ LiveTasks = {}


\* thread t, past the loop head, has taken a step
InFlightStep(t) ==
    /\ task[t].pc \in {"chk", "move", "settle", "replan"}
    /\ task'[t] # task[t]

\* C17: while paused is set no step of a motion thread changes the robot's
\* position or cell, the path, the path index or the returning flag.
C17_PausedFreezesTask ==
    [][(paused /\ \E t \in 1 .. MaxTasks : InFlightStep(t))
          => UNCHANGED <<robot_pos, robot_cell, path, path_index, returning>>]_vars

\* the pause key was the last command and set paused, and after it the thread
\* switched to the return leg with a new path
C17_Witness ==
    /\ paused
    /\ last_cmd = "pause"
    /\ returning
    /\ LastLog = "Return path computed"
    /\ path # <<>> /\ path[1] = goal
    /\ path_index = 0
    /\ moving
    /\ robot_cell = goal


\* the handler of a stop_navigation call has just run
StopIssued == cmds' = cmds + 1 /\ last_cmd' = "stop"

\* C18: stop_navigation called while moving is set clears moving and empties
\* the path, and as long as stop is the last command no thread step changes
\* the robot's position or cell.
C18_StopClearsAndFreezes ==
    [][/\ (moving /\ StopIssued) => (~moving' /\ path' = <<>>)
       /\ (last_cmd = "stop" /\ ThreadStep) => UNCHANGED <<robot_pos, robot_cell>>]_vars

\* the trip was stopped, its thread has ended and the path is still there
C18_Witness ==
    /\ last_cmd = "stop"
    /\ ~moving
    /\ LiveTasks = {}
    /\ LastLog = "Navigation aborted"
    /\ path # <<>>
    /\ path_index < Len(path)


\* the distance of two cells counted in cells, diagonal neighbours at 1
CellDistance(a, b) ==
    LET dr == Abs(a[1] - b[1])
        dc == Abs(a[2] - b[2])
    IN  IF dr > dc THEN dr ELSE dc

\* C19: after every sweep of draw() each detected cell is at most
\* LIDAR_RANGE_CELLS cells away from robot_cell, wherever the robot stands,
\* between two path cells included.
C19_DetectedWithinRange ==
    [][Draw => \A cell \in detected_cells' :
                  CellDistance(cell, robot_cell') <= LIDAR_RANGE_CELLS]_vars

\* between two path cells, a detected cell beyond the range
C19_Witness ==
    /\ robot_pos # cell_center(robot_cell)
    /\ moving
    /\ \E cell \in detected_cells : CellDistance(cell, robot_cell) > LIDAR_RANGE_CELLS


\* C20: while moving is set 0 <= path_index <= len(path), and a thread
\* executes target = self.path[self.path_index] only with
\* path_index < len(path), whatever start, reset and pause do in between.
C20_PathIndexValid ==
    /\ [](moving => (0 <= path_index /\ path_index <= Len(path)))
    /\ [][\A t \in 1 .. MaxTasks :
             (task[t].pc = "move" /\ task'[t] # task[t]) => path_index < Len(path)]_vars

\* moving is set and a thread is about to read past the end of the path
C20_Witness ==
    /\ moving
    /\ path # <<>>
    /\ path_index = Len(path)
    /\ \E t \in 1 .. MaxTasks : task[t].pc = "move"


\* the threads at line 285 with a valid index: the next step of each writes
\* robot_pos, or robot_cell and path_index
Writers == {t \in 1 .. MaxTasks : task[t].pc = "move" /\ path_index < Len(path)}

\* C21: in every reachable state at most one motion thread is about to write
\* the robot's position, cell or path index.
C21_SingleDriver == Cardinality(Writers) <= 1

\* two threads drive the robot, with room on the path for both writes
C21_Witness ==
    /\ Cardinality(Writers) = 2
    /\ moving
    /\ path_index + 1 < Len(path)


\* C22: a thread logs "Reached pharmacy" (lines 263-264) only while
\* robot_cell is the goal and "Returned to start" (line 280) only while
\* robot_cell is the start.
C22_ArrivalsOnTheirCells ==
    [][\A t \in 1 .. MaxTasks :
          /\ (task[t].pc = "chk" /\ task'[t].pc = "settle") => robot_cell = goal
          /\ (task[t].pc = "chk" /\ task'[t].pc = "stopping") => robot_cell = start]_vars

\* "Reached pharmacy" logged with the robot on the start cell
C22_Witness ==
    /\ LastLog = "Reached pharmacy"
    /\ robot_cell = start
    /\ \E t \in 1 .. MaxTasks : task[t].pc = "settle"


\* an obstacle tick has just run
TickIssued == cmds' = cmds + 1 /\ last_cmd' = "tick"

\* C23: the obstacles after a tick are the images of the obstacles before it
\* under a map that sends each obstacle to its own cell or to a 4-adjacent
\* cell that held no obstacle when the tick began.
C23_JudgedAgainstTickStart ==
    [][TickIssued =>
          \E to \in [dynamic -> dynamic'] :
             /\ {to[cell] : cell \in dynamic} = dynamic'
             /\ \A cell \in dynamic :
                   \/ to[cell] = cell
                   \/ (to[cell] \notin dynamic /\ Adjacent(cell, to[cell]))]_vars

\* a tick has left two obstacles side by side
C23_Witness ==
    /\ last_cmd = "tick"
    /\ Cardinality(dynamic) = OBSTACLE_COUNT
    /\ \E a \in dynamic : \E b \in dynamic : Adjacent(a, b)


\* The entries animate_robot appends, by the step that appends them: from
\* position, to position, entry ("" for a step that logs nothing).
Flow ==
    {<<"spawned", "begin", "Path found">>,
     <<"spawned", "idle", "No path found">>,
     <<"begin", "loop", "">>,
     <<"loop", "chk", "">>,
     <<"loop", "idle", "Navigation aborted">>,
     <<"chk", "move", "">>,
     <<"chk", "settle", "Reached pharmacy">>,
     <<"chk", "stopping", "Returned to start">>,
     <<"settle", "loop", "Return path computed">>,
     <<"settle", "stopping", "No return path found">>,
     <<"move", "loop", "">>,
     <<"move", "idle", "">>,
     <<"move", "replan", "Obstacle detected">>,
     <<"replan", "loop", "New path found">>,
     <<"replan", "stopping", "No alternative path found">>,
     <<"stopping", "idle", "">>}

\* the positions a thread can get to from those in `seen` along `edges`
RECURSIVE FlowReach(_, _)
FlowReach(edges, seen) ==
    LET more == {e[2] : e \in {x \in edges : x[1] \in seen}} \ seen
    IN  IF more = {} THEN seen ELSE FlowReach(edges, seen \cup more)

\* the steps that append `entry`
Appending(entry) == {e \in Flow : e[3] = entry}

\* in every run of animate_robot the entry `first` is appended before the
\* first entry `then`: without the steps appending `first` no step appending
\* `then` can be reached from the thread's entry
Precedes(first, then) ==
    \A e \in Appending(then) : e[1] \notin FlowReach(Flow \ Appending(first), {"spawned"})

\* in no run of animate_robot the entry `then` is followed by the entry
\* `first`
NeverAfter(first, then) ==
    \A e \in Appending(then) : \A f \in Appending(first) :
        f[1] \notin FlowReach(Flow, {e[2]})

Writers2 == {1, 2}

\* the number of add_log calls explored
MaxAppends == 8

\* self.log_lines.append(...)
LogAppend(w) ==
    /\ At(w, "idle")
    /\ cmds < MaxAppends
    /\ cmds' = cmds + 1
    /\ log_lines' = Append(log_lines, cmds + 1)
    /\ Goto(w, "appended")
    /\ UNCHANGED <<plan_vars, app_vars, grid, dynamic, robot_cell, robot_pos, path, path_index,
                   moving, paused, returning, detected_cells, last_cmd, cancelled>>

\* if len(self.log_lines) > 6
LogTest(w) ==
    /\ At(w, "appended")
    /\ IF Len(log_lines) > LOG_KEEP THEN Goto(w, "pop") ELSE Goto(w, "idle")
    /\ UNCHANGED <<plan_vars, app_vars, grid, dynamic, robot_cell, robot_pos, path, path_index,
                   moving, paused, returning, detected_cells, log_lines, last_cmd, cmds,
                   cancelled>>

\* self.log_lines.pop(0)
LogPop(w) ==
    /\ At(w, "pop")
    /\ log_lines' = Tail(log_lines)
    /\ Goto(w, "idle")
    /\ UNCHANGED <<plan_vars, app_vars, grid, dynamic, robot_cell, robot_pos, path, path_index,
                   moving, paused, returning, detected_cells, last_cmd, cmds, cancelled>>

\* the log of a fresh simulation, before "Ready" is appended
LogInit ==
    /\ AppIdle
    /\ plan_grid = <<>> /\ plan_start = <<0, 0>> /\ plan_goal = <<0, 0>>
    /\ plan_path = <<>> /\ plan_pc = "off"
    /\ grid = GridOf(ROWS, COLS, StaticWalls)
    /\ dynamic = {}
    /\ robot_cell = start
    /\ robot_pos = cell_center(start)
    /\ path = <<>>
    /\ path_index = 0
    /\ moving = FALSE
    /\ paused = FALSE
    /\ returning = FALSE
    /\ detected_cells = {}
    /\ log_lines = <<>>
    /\ task = [t \in 1 .. MaxTasks |-> [pc |-> "idle", path |-> <<>>]]
    /\ last_cmd = "none"
    /\ cmds = 0
    /\ cancelled = {}

LogNext == \E w \in Writers2 : LogAppend(w) \/ LogTest(w) \/ LogPop(w)

SpecLog == LogInit /\ [][LogNext]_vars

\* the last LOG_KEEP of the entries appended so far, oldest first
Recent ==
    LET k == Min(cmds, LOG_KEEP)
    IN  [i \in 1 .. k |-> cmds - k + i]

\* C25: whenever no add_log call is in progress, the log holds at most
\* LOG_KEEP entries and they are the most recently appended ones, oldest
\* first.
C25_LogBoundedAndRecent ==
    (\A w \in Writers2 : task[w].pc = "idle")
       => (Len(log_lines) <= LOG_KEEP /\ log_lines = Recent)

\* both writers have returned and the log has lost one of the most recent
\* entries
C25_Witness ==
    /\ \A w \in Writers2 : task[w].pc = "idle"
    /\ cmds >= LOG_KEEP + 1
    /\ Len(log_lines) < LOG_KEEP


(***************************************************************************)
(* lidar_scan on its own: the robot stands on a cell centre or one         *)
(* interpolation step away from it, the obstacles are where spawn_dynamic  *)
(* put them, detected_cells holds every cell (the most an earlier sweep    *)
(* could have left), and the range is one cell more than                   *)
(* LIDAR_RANGE_CELLS, so that a beam has samples beyond its first one.     *)
(***************************************************************************)
ScanRange == LIDAR_RANGE_CELLS + 1

\* the cell centres the robot can stand on and the positions one
\* interpolation step (STEP) from a centre toward a free 4-neighbour
ScanPositions ==
    LET free == Cells \ StaticWalls
        legs == {leg \in free \X MoveDirs :
                    <<leg[1][1] + leg[2][1], leg[1][2] + leg[2][2]>> \in free}
    IN  {cell_center(cell) : cell \in free}
           \cup {<<cell_center(leg[1])[1] + STEP * leg[2][2],
                    cell_center(leg[1])[2] + STEP * leg[2][1]>> : leg \in legs}

LidarInit ==
    /\ AppIdle
    /\ plan_grid = <<>> /\ plan_start = <<0, 0>> /\ plan_goal = <<0, 0>>
    /\ plan_path = <<>> /\ plan_pc = "off"
    /\ grid = GridOf(ROWS, COLS, StaticWalls)
    /\ dynamic \in SpawnChoices(OBSTACLE_COUNT)
    /\ robot_cell = start
    /\ robot_pos \in ScanPositions
    /\ path = <<>>
    /\ path_index = 0
    /\ moving = FALSE
    /\ paused = FALSE
    /\ returning = FALSE
    /\ detected_cells = Cells
    /\ log_lines = <<"Ready">>
    /\ task = [t \in 1 .. MaxTasks |-> [pc |-> "idle", path |-> <<>>]]
    /\ last_cmd = "none"
    /\ cmds = 0
    /\ cancelled = {}

\* self.detected_cells = detected, for a sweep of range ScanRange
LidarCall ==
    /\ cmds = 0
    /\ cmds' = 1
    /\ last_cmd' = "scan"
    /\ detected_cells' \in lidar_scan(robot_pos, ScanRange)
    /\ UNCHANGED <<plan_vars, app_vars, grid, dynamic, robot_cell, robot_pos, path, path_index,
                   moving, paused, returning, log_lines, task, cancelled>>

LidarNext == LidarCall

SpecLidar == LidarInit /\ [][LidarNext]_vars

\* the cells (rr, cc) sample d of the beam at angle a can fall in
Samples(pos, a, d) ==
    SampleIndex(pos[2], Sin(a), d) \X SampleIndex(pos[1], Cos(a), d)

\* the sample sequences of the beam at angle a
Traces(pos, range, a) ==
    {tr \in [1 .. range -> UNION {Samples(pos, a, d) : d \in 1 .. range}] :
        \A d \in 1 .. range : tr[d] \in Samples(pos, a, d)}

\* what a beam with samples tr reports: its first sample that is off the grid
\* or occupied ends it, and is reported when it is an occupied cell
StopAt(tr, range) ==
    LET ends == {d \in 1 .. range : ~InRange(ROWS, COLS, tr[d]) \/ Occupied(tr[d])}
    IN  IF ends = {} THEN NoHit
        ELSE LET first == CHOOSE d \in ends : \A e \in ends : d <= e
             IN  IF InRange(ROWS, COLS, tr[first]) THEN tr[first] ELSE NoHit

\* C26: after a sweep every detected cell is in bounds and is a wall or a
\* dynamic obstacle, every detected cell is the first occupied sample of
\* some beam of this sweep (whatever detected_cells held before), and every
\* beam's report is in the detected set.
C26_DetectedIsThisSweep ==
    [][LidarCall =>
          /\ \A cell \in detected_cells' : InRange(ROWS, COLS, cell) /\ Occupied(cell)
          /\ \A cell \in detected_cells' :
                \E a \in BeamAngles : \E tr \in Traces(robot_pos, ScanRange, a) :
                   StopAt(tr, ScanRange) = cell
          /\ \A a \in BeamAngles : \E tr \in Traces(robot_pos, ScanRange, a) :
                StopAt(tr, ScanRange) \in detected_cells' \cup {NoHit}]_vars

\* a sweep from the start cell that replaced a full detected set: the
\* obstacle on (1,1) is reported and the wall (1,0) behind it is not
C26_Witness ==
    /\ last_cmd = "scan"
    /\ robot_pos = cell_center(start)
    /\ <<1, 1>> \in dynamic
    /\ <<1, 1>> \in detected_cells
    /\ <<1, 0>> \notin detected_cells
    /\ grid[1][0] = 1


\* C27: the view current_grid marks a cell blocked exactly when it is a
\* static wall, holds a dynamic obstacle or is a detected cell, and the
\* static grid stays what __init__ made it, through sweeps, ticks, toggle,
\* reset and the planning of start_navigation; a path planned on the view
\* enters no blocked cell.
C27_ViewIsUnion ==
    /\ [](\A cell \in Cells :
            current_grid[cell[1]][cell[2]] = 1
               <=> (cell \in StaticWalls \/ cell \in dynamic \/ cell \in detected_cells))
    /\ [](grid = GridOf(ROWS, COLS, StaticWalls))
    /\ [][\A t \in 1 .. MaxTasks :
             (StartIssued /\ task[t].pc = "idle" /\ task'[t].pc = "spawned") =>
                \A i \in 2 .. Len(task'[t].path) :
                   task'[t].path[i] \notin StaticWalls \cup dynamic \cup detected_cells]_vars

\* start_navigation has planned around a cell that only the last sweep
\* marks: its obstacle has moved on since
C27_Witness ==
    /\ last_cmd = "start"
    /\ \E t \in 1 .. MaxTasks : task[t].pc = "spawned" /\ Len(task[t].path) > 1
    /\ \E cell \in detected_cells : cell \notin dynamic /\ cell \notin StaticWalls
    /\ dynamic # {}


\* C28: in every reachable state robot_cell is a cell of the grid and not a
\* static wall.
C28_RobotCellOnFreeGround ==
    /\ InRange(ROWS, COLS, robot_cell)
    /\ grid[robot_cell[1]][robot_cell[2]] = 0

\* the robot has driven to the goal, next to the wall (1,0), while an
\* obstacle tick moved the obstacles
C28_Witness ==
    /\ robot_cell = goal
    /\ moving
    /\ last_cmd = "tick"
    /\ \E wall \in StaticWalls : Adjacent(wall, robot_cell)


\* C29: start_navigation called with moving clear and robot_cell on the goal
\* resolves the outbound leg itself: the arrival "Reached pharmacy" is the
\* entry it leaves, and it hands no planned outbound path to a thread.
C29_StartOnGoalArrives ==
    [][(~moving /\ robot_cell = goal /\ StartIssued)
          => /\ LastLog' = "Reached pharmacy"
             /\ \A t \in 1 .. MaxTasks :
                   (task[t].pc = "idle" /\ task'[t].pc = "spawned")
                      => task'[t].path # astar(current_grid, robot_cell, goal)]_vars

\* start_navigation on the goal has run astar and handed its one-cell path
\* to a thread; no arrival is logged
C29_Witness ==
    /\ last_cmd = "start"
    /\ robot_cell = goal
    /\ ~moving
    /\ LastLog # "Reached pharmacy"
    /\ \E t \in 1 .. MaxTasks : task[t].pc = "spawned" /\ task[t].path = <<goal>>


\* the handler of a reset has just run
ResetIssued == cmds' = cmds + 1 /\ last_cmd' = "reset"

\* C30: reset leaves paused clear, and a thread started by the
\* start_navigation that follows a reset eventually takes the robot off the
\* start cell, whatever P presses came before the reset.
C30_ResetUnfreezes ==
    /\ [][ResetIssued => ~paused']_vars
    /\ (\E t \in 1 .. MaxTasks : task[t].pc = "spawned") ~> (robot_cell # start)

\* after pause, reset and start the thread spins at its loop head with
\* paused still set
C30_Witness ==
    /\ paused
    /\ last_cmd = "start"
    /\ moving
    /\ robot_cell = start
    /\ path # <<>>
    /\ \E t \in 1 .. MaxTasks : task[t].pc = "loop"


(***************************************************************************)
(* The dashboard (app.py).  Streamlit runs the script from top to bottom   *)
(* once per page load and once per widget event; st.session_state is what  *)
(* survives from one run to the next.  Only the navigation entries of the  *)
(* session state are modelled.  Cells are (x, y) with 0 <= x < w and       *)
(* 0 <= y < h.                                                             *)
(***************************************************************************)
\* grid_w, grid_h (30 and 18 in the source)
GRID_W == 5
GRID_H == 3
\* the corridor randomize_obstacles keeps clear around start and goal (2 in
\* the source)
MARGIN == 1
\* steps_per_burst (8 in the source)
STEPS_PER_BURST == 2

\* ss["start"]: the patient room, ss["goal"]: the pharmacy, on one row away
\* from the border as in the source ((2, 9) and (27, 9))
PatientRoom == <<0, 1>>
Pharmacy == <<GRID_W - 1, 1>>

AppCells == (0 .. GRID_W - 1) \X (0 .. GRID_H - 1)

\* neighbors(pt, w, h): the 4-neighbours inside the grid.  The source yields
\* them in a fixed order; a_star treats each one independently of the others.
neighbors(pt, w, h) ==
    {nb \in {<<pt[1] + 1, pt[2]>>, <<pt[1] - 1, pt[2]>>,
             <<pt[1], pt[2] + 1>>, <<pt[1], pt[2] - 1>>} :
        0 <= nb[1] /\ nb[1] < w /\ 0 <= nb[2] /\ nb[2] < h}

\* One pass of the while loop of a_star on the loop state s = (open_set,
\* came_from, g); f[n] is always g[n] + heuristic(n, goal), so f is not kept.
\* min(open_set, key=...) returns the first node with the least f in the
\* iteration order of a Python set, which the source does not control: every
\* node with the least f is a possible choice of current.
a_star_least(target, s) ==
    {n \in s.open_set :
        \A o \in s.open_set :
            s.g[n] + heuristic(n, target) <= s.g[o] + heuristic(o, target)}

\* the loop state after the neighbour loop for current
a_star_expand(w, h, obstacles, s, current) ==
    LET tentative_g == s.g[current] + 1
        better == {nb \in neighbors(current, w, h) :
                      /\ nb \notin obstacles
                      /\ nb \notin DOMAIN s.g \/ tentative_g < s.g[nb]}
    IN  [open_set |-> (s.open_set \ {current}) \cup better,
         came_from |-> [n \in DOMAIN s.came_from \cup better |->
                          IF n \in better THEN current ELSE s.came_from[n]],
         g |-> [n \in DOMAIN s.g \cup better |->
                  IF n \in better THEN tentative_g ELSE s.g[n]]]

\* what a_star returns from loop state s when it returns in this pass: []
\* when open_set is empty, the reconstructed path when current is the goal
a_star_return(target, s) ==
    IF s.open_set = {} THEN {<<>>}
    ELSE {Backtrack(s.came_from, current, <<current>>) :
             current \in a_star_least(target, s) \cap {target}}

\* the while loop of a_star, followed for every possible choice of current
\* at once: S holds the loop states the call can be in after the same
\* number of passes, found the paths it can have returned before.  The
\* value is the set of the paths the call can return ([] for no path).
RECURSIVE a_star_loop(_, _, _, _, _, _)
a_star_loop(target, w, h, obstacles, S, found) ==
    IF S = {} THEN found
    ELSE a_star_loop(target, w, h, obstacles,
                     UNION {{a_star_expand(w, h, obstacles, s, current) :
                                current \in a_star_least(target, s) \ {target}} :
                            s \in S},
                     found \cup UNION {a_star_return(target, s) : s \in S})

\* a_star(start, goal, w, h, obstacles): the paths the call can return
a_star(origin, target, w, h, obstacles) ==
    a_star_loop(target, w, h, obstacles,
                {[open_set |-> {origin}, came_from |-> <<>>, g |-> (origin :> 0)]},
                {})

\* randomize_obstacles(w, h, start, goal, margin): every cell that is neither
\* start nor goal nor within margin of one of them is an obstacle with
\* probability density, so any set of such cells can come out
randomize_obstacles(w, h, origin, target, margin) ==
    SUBSET {c \in (0 .. w - 1) \X (0 .. h - 1) :
               /\ c \notin {origin, target}
               /\ ~(Abs(c[1] - origin[1]) <= margin /\ Abs(c[2] - origin[2]) <= margin)
               /\ ~(Abs(c[1] - target[1]) <= margin /\ Abs(c[2] - target[2]) <= margin)}

\* list(reversed(path))
Reversed(p) == [i \in 1 .. Len(p) |-> p[Len(p) + 1 - i]]


\* init_state: the navigation entries of a new session
InitState ==
    [nav_on |-> FALSE, obstacles |-> {}, start |-> PatientRoom, goal |-> Pharmacy,
     robot_pos |-> PatientRoom, path |-> <<>>]

\* the navigation entries of st.session_state as one record
Session ==
    [nav_on |-> ss_nav_on, obstacles |-> ss_obstacles, start |-> ss_start,
     goal |-> ss_goal, robot_pos |-> ss_robot_pos, path |-> ss_path]

\* the widget events that start a script run: "none" is a run without a
\* pressed button (a slider move, another tab's widget), the others are the
\* buttons of the overview tab (ov_) and of the navigation tab.  A button
\* of the page as last rendered that the new run does not render does
\* nothing, which is the run of "none".
AppEvents ==
    {"none", "ov_start", "ov_stop", "reset_all",
     "nav_start", "nav_stop", "randomize", "reset_map"}

\* the session before the navigation tab is reached: the quick controls of
\* the overview tab; Reset All deletes every entry, calls init_state and
\* st.rerun(), so the script starts over on a new session without an event
Overview(s, e) ==
    IF e = "ov_start" /\ ~s.nav_on THEN [s EXCEPT !.nav_on = TRUE]
    ELSE IF e = "ov_stop" /\ s.nav_on THEN [s EXCEPT !.nav_on = FALSE]
    ELSE IF e = "reset_all" THEN InitState
    ELSE s

\* the buttons of the navigation tab; start and goal are the script's local
\* copies of the session entries, read when the tab begins
NavControls(s, e) ==
    IF e = "nav_start" /\ ~s.nav_on
    THEN IF s.path = <<>>
         THEN {[s EXCEPT !.nav_on = TRUE, !.path = p] :
                  p \in a_star(s.start, s.goal, GRID_W, GRID_H, s.obstacles)}
         ELSE {[s EXCEPT !.nav_on = TRUE]}
    ELSE IF e = "nav_stop" /\ s.nav_on
    THEN {[s EXCEPT !.nav_on = FALSE]}
    ELSE IF e = "randomize"
    THEN UNION {{[s EXCEPT !.obstacles = obs, !.path = p, !.robot_pos = s.start] :
                    p \in a_star(s.start, s.goal, GRID_W, GRID_H, obs)} :
                obs \in randomize_obstacles(GRID_W, GRID_H, s.start, s.goal, MARGIN)}
    ELSE IF e = "reset_map"
    THEN {[s EXCEPT !.obstacles = {}, !.path = p, !.robot_pos = s.start] :
             p \in a_star(s.start, s.goal, GRID_W, GRID_H, {})}
    ELSE {s}

\* "Ensure path is available"
EnsurePath(s) ==
    IF s.path = <<>>
    THEN {[s EXCEPT !.path = p] :
             p \in a_star(s.start, s.goal, GRID_W, GRID_H, s.obstacles)}
    ELSE {s}

\* the robot stands on the session's goal when a burst begins
AtGoal(s) == s.nav_on /\ s.path # <<>> /\ s.robot_pos = s.goal

\* "If robot at goal, reverse path to return"
TurnAround(s) ==
    IF AtGoal(s)
    THEN [s EXCEPT !.path = Reversed(s.path), !.goal = s.start, !.start = s.goal]
    ELSE s

\* the assignment of a session record to the session entries
Store(s) ==
    /\ ss_nav_on' = s.nav_on
    /\ ss_obstacles' = s.obstacles
    /\ ss_start' = s.start
    /\ ss_goal' = s.goal
    /\ ss_robot_pos' = s.robot_pos
    /\ ss_path' = s.path

\* One script run on event e, from the top of the script to the head of the
\* burst loop (navigation on and a path) or to the end of the script.  A
\* widget event that arrives during a burst ends that run at its next
\* Streamlit call (draw_nav, a status line) and starts this one.
ScriptRun(e) ==
    /\ app_pc \in {"wait", "burst"}
    /\ \E s1 \in NavControls(Overview(Session, e), e) :
         \E s2 \in EnsurePath(s1) :
            /\ Store(TurnAround(s2))
            /\ IF s2.nav_on /\ s2.path # <<>>
               THEN app_pc' = "burst" /\ app_left' = STEPS_PER_BURST
               ELSE app_pc' = "wait" /\ app_left' = 0
    /\ UNCHANGED <<plan_vars, sim_vars>>

\* One iteration of `for _ in range(steps_per_burst)`; after the last one
\* the script ends.
BurstStep ==
    /\ app_pc = "burst"
    /\ app_left > 0
    /\ \E p \in (IF ss_path = <<>>
                 THEN a_star(ss_robot_pos, ss_goal, GRID_W, GRID_H, ss_obstacles)
                 ELSE {ss_path}) :
          IF p = <<>>
          THEN \* "No path available!": break
               /\ ss_path' = p
               /\ app_pc' = "wait" /\ app_left' = 0
               /\ UNCHANGED ss_robot_pos
          ELSE /\ IF Len(p) > 1
                  THEN ss_robot_pos' = p[2] /\ ss_path' = Tail(p)
                  ELSE ss_robot_pos' = ss_robot_pos /\ ss_path' = p
               /\ app_left' = app_left - 1
               /\ app_pc' = IF app_left = 1 THEN "wait" ELSE "burst"
    /\ UNCHANGED <<plan_vars, sim_vars, ss_nav_on, ss_obstacles, ss_start, ss_goal>>

\* a new session: init_state has run, the first script run is about to start
AppInit ==
    /\ SimIdle
    /\ plan_grid = <<>> /\ plan_start = <<0, 0>> /\ plan_goal = <<0, 0>>
    /\ plan_path = <<>> /\ plan_pc = "off"
    /\ ss_nav_on = InitState.nav_on
    /\ ss_obstacles = InitState.obstacles
    /\ ss_start = InitState.start
    /\ ss_goal = InitState.goal
    /\ ss_robot_pos = InitState.robot_pos
    /\ ss_path = InitState.path
    /\ app_pc = "wait"
    /\ app_left = 0

AppNext == BurstStep \/ \E e \in AppEvents : ScriptRun(e)

SpecApp == AppInit /\ [][AppNext]_vars


(***************************************************************************)
(* One delivery on the dashboard: obstacles may be randomized while        *)
(* navigation is off, Start Navigation is pressed once, and from then on   *)
(* the script is only rerun without a pressed button.  Every burst runs on *)
(* and reruns keep coming.                                                 *)
(***************************************************************************)
ReturnRandomize == ~ss_nav_on /\ ScriptRun("randomize")
ReturnStart == ~ss_nav_on /\ ScriptRun("nav_start")
ReturnRerun == ScriptRun("none")

ReturnNext == ReturnRandomize \/ ReturnStart \/ ReturnRerun \/ BurstStep

\* the burst loop runs on, and runs without a pressed button keep coming
ReturnFair == WF_vars(BurstStep) /\ WF_vars(ReturnRerun)

SpecReturn == AppInit /\ [][ReturnNext]_vars /\ ReturnFair

\* a script run has reached the head of its burst loop
BurstBegins == app_pc' = "burst" /\ app_left' = STEPS_PER_BURST

\* navigation is on, there is a path, and the robot has reached the pharmacy
\* as the goal of the outbound trip
ReachedPharmacy ==
    /\ ss_nav_on /\ ss_path # <<>>
    /\ ss_goal = Pharmacy /\ ss_robot_pos = Pharmacy

\* C31: on the dashboard, with navigation on and a path available, a burst
\* that finds the robot on the goal reverses the path and swaps start and
\* goal, and the robot travels back: once it has reached the pharmacy, later
\* bursts take it off the pharmacy cell and eventually onto the original
\* start cell, the patient room.
C31_RobotTravelsBack ==
    /\ [][(BurstBegins /\ AtGoal(Session))
            => /\ ss_path' = Reversed(ss_path)
               /\ ss_goal' = ss_start
               /\ ss_start' = ss_goal]_vars
    /\ ReachedPharmacy ~> (ss_robot_pos # Pharmacy)
    /\ ReachedPharmacy ~> (ss_robot_pos = PatientRoom)

\* the robot arrived at the pharmacy, the next burst turned the session
\* around, and that burst has run to its end
C31_Witness ==
    /\ ss_nav_on /\ app_pc = "wait"
    /\ ss_robot_pos = Pharmacy
    /\ ss_start = Pharmacy /\ ss_goal = PatientRoom

====
